---- MODULE Spec2Model ----
(***************************************************************************)
(* os.h: Alloc / Free / MapFile / UnmapFile over the _WIN32 and the        *)
(* __unix__ backend.  The state is the host's resource tables (live        *)
(* allocations, mapped views, open handles), the regions the caller holds, *)
(* and a record of the call that just returned.  Every operation is        *)
(* synchronous, so one action is one whole call; what the environment      *)
(* decides (whether a native call succeeds, how long the file is) is an    *)
(* input of the action.                                                    *)
(*                                                                         *)
(* A Uint64 is carried as its two 32-bit halves [hi, lo]: the code         *)
(* narrows 64-bit sizes to DWORD and to SIZE_T/size_t, and TLC's integers  *)
(* are themselves 32 bits wide.                                            *)
(***************************************************************************)
EXTENDS Integers, Sequences, FiniteSets, TLC

VARIABLES build, allocs, views, handles, held, last, peer

vars == <<build, allocs, views, handles, held, last, peer>>

\* Bounds of the model: the largest high doubleword of a size, and how many
\* allocations and views may be live at once.
MaxHi == 1
MaxLive == 1

\* The low doubleword of a size is zero or it is not.
LowDwords == {0, 1}

\* ------------------------------------------------------------- data types

NULL == 0

\* (DWORD) 0xFFFFFFFF, what GetFileSize returns when it fails; carried as the
\* 32-bit two's-complement integer of the same bit pattern.
INVALID_FILE_SIZE == -1

\* (void *) -1
MAP_FAILED == -1

\* (HANDLE) -1
INVALID_HANDLE_VALUE == -1

U64(h, l) == [hi |-> h, lo |-> l]

Zero == U64(0, 0)

\* (Uint64) d for a DWORD d
FromDword(d) == U64(0, d)

Leq(a, b) == a.hi < b.hi \/ (a.hi = b.hi /\ a.lo <= b.lo)

Sizes == [hi : 0..MaxHi, lo : LowDwords]

\* typedef struct { Uint8 *base; Uint64 size; } Bytes, with the fields the
\* call has stored into so far.
Bytes(b, s, w) == [base |-> b, size |-> s, wrote |-> w]

\* The caller's `Bytes x;` before the call: nothing stored yet.
Unbound == Bytes(NULL, Zero, {})

\* The build: which backend is compiled, the width of SIZE_T / size_t, and
\* the UNICODE and LARGE_PAGES macros.
Builds ==
    { b \in [os : {"_WIN32", "__unix__"}, SIZE_T_BITS : {32, 64},
             UNICODE : BOOLEAN, LARGE_PAGES : BOOLEAN] :
        b.os = "__unix__" => ~b.UNICODE }

\* (SIZE_T) size, (size_t) size
ToSizeT(b, size) == IF b.SIZE_T_BITS = 64 THEN size ELSE U64(0, size.lo)

\* ------------------------------------------------- the machine of one call

\* What a call works on: the host's tables, and what the call has done so
\* far (the native calls it made, the TRACE_ERROR invocations).
Machine(a, v, h) ==
    [allocs |-> a, views |-> v, handles |-> h, calls |-> <<>>, traces |-> <<>>]

Log(m, fn, len, flags, ok) ==
    [m EXCEPT !.calls = Append(@, [fn |-> fn, len |-> len, flags |-> flags, ok |-> ok])]

TRACE_ERROR(m, cstr) == [m EXCEPT !.traces = Append(@, cstr)]

TraceError(m, fmtOk) ==
    IF ~fmtOk
    THEN TRACE_ERROR(m, "Could not format a human readable error message")
    ELSE TRACE_ERROR(m, "FormatMessage(GetLastError())")

StrError(m) == TRACE_ERROR(m, "strerror(errno)")

Return(m, ret, out) == [m |-> m, ret |-> ret, out |-> out]

Bases(m) == {r.base : r \in m.allocs \cup m.views}

\* The address the host hands out: the lowest one not in use.
FreshBase(m) ==
    CHOOSE b \in 1..(Cardinality(Bases(m)) + 1) :
        /\ b \notin Bases(m)
        /\ \A c \in 1..(b - 1) : c \in Bases(m)

\* ------------------------------------------------------- the native calls
\* Each takes the environment's verdict `ok` and answers [m, ret].

\* VirtualAlloc(NULL, len, MEM_RESERVE | MEM_COMMIT | largePages, PAGE_READWRITE):
\* NULL on failure; a request for zero bytes is rejected.
VirtualAlloc(m, len, flags, ok) ==
    LET good == ok /\ len # Zero
        base == FreshBase(m)
        m1 == Log(m, "VirtualAlloc", len, flags, good)
    IN IF good
       THEN [m |-> [m1 EXCEPT !.allocs = @ \cup {[base |-> base, len |-> len]}],
             ret |-> base]
       ELSE [m |-> m1, ret |-> NULL]

\* VirtualFree(base, 0, MEM_RELEASE): releases the whole allocation that
\* starts at base; 0 on failure.
VirtualFree(m, base, ok) ==
    LET good == ok /\ \E a \in m.allocs : a.base = base
        m1 == Log(m, "VirtualFree", Zero, {"MEM_RELEASE"}, good)
    IN IF good
       THEN [m |-> [m1 EXCEPT !.allocs = {a \in @ : a.base # base}], ret |-> 1]
       ELSE [m |-> m1, ret |-> 0]

\* mmap(NULL, len, prot, flags, fd, 0): MAP_FAILED on failure; a length of
\* zero is rejected.  The mapping is len bytes long whatever the
\* file's length is at that moment.
Mmap(m, len, flags, anonymous, ok) ==
    LET good == ok /\ len # Zero
        base == FreshBase(m)
        m1 == Log(m, "mmap", len, flags, good)
        r == [base |-> base, len |-> len]
    IN IF ~good THEN [m |-> m1, ret |-> MAP_FAILED]
       ELSE IF anonymous
       THEN [m |-> [m1 EXCEPT !.allocs = @ \cup {r}], ret |-> base]
       ELSE [m |-> [m1 EXCEPT !.views = @ \cup {r}], ret |-> base]

\* munmap(base, len): unmaps the pages of [base, base+len); a mapping longer
\* than len stays (in part) mapped.  -1 on failure; a length of zero is
\* rejected.
Munmap(m, base, len, ok) ==
    LET good == ok /\ len # Zero
        m1 == Log(m, "munmap", len, {}, good)
        gone(r) == r.base = base /\ Leq(r.len, len)
    IN IF good
       THEN [m |-> [m1 EXCEPT !.allocs = {a \in @ : ~gone(a)},
                              !.views = {v \in @ : ~gone(v)}],
             ret |-> 0]
       ELSE [m |-> m1, ret |-> -1]

\* ------------------------------------------------------------ Alloc, Free
\* in.size: the argument; in.ok: the native call's verdict; in.fmtOk:
\* FormatMessage's.

LargeFlag(b, name) == IF b.LARGE_PAGES THEN {name} ELSE {}

WinAlloc(b, m, bytes, in) ==
    LET largePages == LargeFlag(b, "MEM_LARGE_PAGES")
        va == VirtualAlloc(m, ToSizeT(b, in.size),
                           {"MEM_RESERVE", "MEM_COMMIT"} \cup largePages, in.ok)
    IN IF va.ret = NULL
       THEN Return(TraceError(va.m, in.fmtOk), FALSE, bytes)
       ELSE Return(va.m, TRUE, Bytes(va.ret, in.size, {"size", "base"}))

WinFree(b, m, bytes, in) ==
    LET vf == VirtualFree(m, bytes.base, in.ok)
    IN IF vf.ret = 0
       THEN Return(TraceError(vf.m, in.fmtOk), FALSE, bytes)
       ELSE Return(vf.m, TRUE, bytes)

\* UnixAlloc with a fallback: when the huge-page request is refused, a second
\* mmap without MAP_HUGETLB.
UnixAllocFallback(b, m, bytes, in) ==
    LET largePages == LargeFlag(b, "MAP_HUGETLB")
        mm == Mmap(m, ToSizeT(b, in.size),
                   {"MAP_PRIVATE", "MAP_ANONYMOUS"} \cup largePages, TRUE, in.ok)
        again == Mmap(mm.m, ToSizeT(b, in.size),
                      {"MAP_PRIVATE", "MAP_ANONYMOUS"}, TRUE, in.ok)
    IN IF mm.ret # MAP_FAILED
       THEN Return(mm.m, TRUE, Bytes(mm.ret, in.size, {"size", "base"}))
       ELSE IF b.LARGE_PAGES /\ again.ret # MAP_FAILED
       THEN Return(again.m, TRUE, Bytes(again.ret, in.size, {"size", "base"}))
       ELSE Return(StrError(IF b.LARGE_PAGES THEN again.m ELSE mm.m), FALSE, bytes)

UnixAlloc(b, m, bytes, in) ==
    LET largePages == LargeFlag(b, "MAP_HUGETLB")
        mm == Mmap(m, ToSizeT(b, in.size),
                   {"MAP_PRIVATE", "MAP_ANONYMOUS"} \cup largePages, TRUE, in.ok)
    IN IF mm.ret = MAP_FAILED
       THEN Return(StrError(mm.m), FALSE, bytes)
       ELSE Return(mm.m, TRUE, Bytes(mm.ret, in.size, {"size", "base"}))

\* UnixFree without the TRACE_ERROR of its failure path.
UnixFreeSilent(b, m, bytes, in) ==
    LET mu == Munmap(m, bytes.base, ToSizeT(b, bytes.size), in.ok)
    IN IF mu.ret # 0
       THEN Return(mu.m, FALSE, bytes)
       ELSE Return(mu.m, TRUE, bytes)

UnixFree(b, m, bytes, in) ==
    LET mu == Munmap(m, bytes.base, ToSizeT(b, bytes.size), in.ok)
    IN IF mu.ret # 0
       THEN Return(StrError(mu.m), FALSE, bytes)
       ELSE Return(mu.m, TRUE, bytes)

\* ------------------------------------------- files, handles, mapping objects
\* An open handle is [kind, id, len]: a file handle / descriptor with the
\* file's length, or a mapping object with its size.

Ids(m) == {h.id : h \in m.handles}

FreshId(m) ==
    CHOOSE i \in 1..(Cardinality(Ids(m)) + 1) :
        /\ i \notin Ids(m)
        /\ \A j \in 1..(i - 1) : j \in Ids(m)

Handle(m, id) == CHOOSE h \in m.handles : h.id = id

\* MultiByteToWideChar(CP_ACP, 0, filePath, -1, tFilePath, MAX_PATH): 0 on failure.
MultiByteToWideChar(m, ok) ==
    [m |-> Log(m, "MultiByteToWideChar", Zero, {}, ok), ret |-> IF ok THEN 1 ELSE 0]

\* CreateFile(path, GENERIC_READ, 0, NULL, OPEN_EXISTING, ...): share mode 0,
\* so while the handle is open no one else has the file open and its length,
\* len, cannot change.
CreateFile(m, len, ok) ==
    LET id == FreshId(m)
        m1 == Log(m, "CreateFile", Zero, {"GENERIC_READ", "OPEN_EXISTING"}, ok)
    IN IF ok
       THEN [m |-> [m1 EXCEPT !.handles = @ \cup {[kind |-> "file", id |-> id, len |-> len]}],
             ret |-> id]
       ELSE [m |-> m1, ret |-> INVALID_HANDLE_VALUE]

\* GetFileSize(hFile, NULL): the low-order doubleword of the file's length;
\* INVALID_FILE_SIZE on failure.
GetFileSize(m, hFile, ok) ==
    [m |-> Log(m, "GetFileSize", Zero, {}, ok),
     ret |-> IF ok THEN Handle(m, hFile).len.lo ELSE INVALID_FILE_SIZE]

\* CreateFileMapping(hFile, NULL, PAGE_READONLY | largePages, 0, 0, NULL): a
\* mapping object as large as the file; NULL on failure, and a file of length
\* zero is rejected.
CreateFileMapping(m, hFile, flags, ok) ==
    LET len == Handle(m, hFile).len
        good == ok /\ len # Zero
        id == FreshId(m)
        m1 == Log(m, "CreateFileMapping", Zero, flags, good)
    IN IF good
       THEN [m |-> [m1 EXCEPT !.handles = @ \cup {[kind |-> "mapping", id |-> id, len |-> len]}],
             ret |-> id]
       ELSE [m |-> m1, ret |-> NULL]

\* MapViewOfFile(hMapping, FILE_MAP_READ, 0, 0, 0): a view of the whole
\* mapping object; NULL on failure, and a view has to fit in a SIZE_T.
MapViewOfFile(b, m, hMapping, ok) ==
    LET len == Handle(m, hMapping).len
        good == ok /\ ToSizeT(b, len) = len
        base == FreshBase(m)
        m1 == Log(m, "MapViewOfFile", Zero, {"FILE_MAP_READ"}, good)
    IN IF good
       THEN [m |-> [m1 EXCEPT !.views = @ \cup {[base |-> base, len |-> len]}], ret |-> base]
       ELSE [m |-> m1, ret |-> NULL]

\* UnmapViewOfFile(pMapView): FALSE on failure.
UnmapViewOfFile(m, base, ok) ==
    LET good == ok /\ \E v \in m.views : v.base = base
        m1 == Log(m, "UnmapViewOfFile", Zero, {}, good)
    IN IF good
       THEN [m |-> [m1 EXCEPT !.views = {v \in @ : v.base # base}], ret |-> TRUE]
       ELSE [m |-> m1, ret |-> FALSE]

\* CloseHandle(h), close(fd)
CloseHandle(m, h) ==
    [Log(m, "CloseHandle", Zero, {}, TRUE) EXCEPT !.handles = {x \in @ : x.id # h}]

Close(m, fd) ==
    [Log(m, "close", Zero, {}, TRUE) EXCEPT !.handles = {x \in @ : x.id # fd}]

\* open(filePath, O_RDONLY): -1 on failure.
Open(m, len, ok) ==
    LET id == FreshId(m)
        m1 == Log(m, "open", Zero, {"O_RDONLY"}, ok)
    IN IF ok
       THEN [m |-> [m1 EXCEPT !.handles = @ \cup {[kind |-> "file", id |-> id, len |-> len]}],
             ret |-> id]
       ELSE [m |-> m1, ret |-> -1]

\* fstat(fd, &st): -1 on failure, else st.st_size is the file's length.
Fstat(m, fd, ok) ==
    [m |-> Log(m, "fstat", Zero, {}, ok),
     ret |-> IF ok THEN 0 ELSE -1,
     st_size |-> Handle(m, fd).len]

\* ----------------------------------------------------- MapFile, UnmapFile
\* in.len: the file's length; in.convOk, in.openOk, in.sizeOk1, in.mappingOk,
\* in.viewOk, in.sizeOk2: the verdicts of the native calls in the order they
\* are made; in.fmtOk: FormatMessage's.  mmap does at once what
\* CreateFileMapping and MapViewOfFile do one after the other, and succeeds
\* when both of their verdicts are yes.

Sentinel == Bytes(NULL, Zero, {"size", "base"})

\* if (hMapping == NULL) { TraceError(); CloseHandle(hFile); return FALSE; }
WinMappingFailed(m, hFile, fileMap, fmtOk) ==
    Return(CloseHandle(TraceError(m, fmtOk), hFile), FALSE, fileMap)

\* WinViewFailed without CloseHandle(hMapping).
WinViewFailedLeak(m, hMapping, hFile, fileMap, fmtOk) ==
    Return(CloseHandle(TraceError(m, fmtOk), hFile), FALSE, fileMap)

\* if (pMapView == NULL) { TraceError(); CloseHandle(hMapping);
\*                         CloseHandle(hFile); return FALSE; }
WinViewFailed(m, hMapping, hFile, fileMap, fmtOk) ==
    Return(CloseHandle(CloseHandle(TraceError(m, fmtOk), hMapping), hFile), FALSE, fileMap)

WinMapFile(b, m, fileMap, in) ==
    LET mb == IF b.UNICODE THEN MultiByteToWideChar(m, in.convOk) ELSE [m |-> m, ret |-> 1]
    IN IF mb.ret = 0 THEN Return(TraceError(mb.m, in.fmtOk), FALSE, fileMap) ELSE
    LET cf == CreateFile(mb.m, in.len, in.openOk)
        hFile == cf.ret
    IN IF hFile = INVALID_HANDLE_VALUE THEN Return(TraceError(cf.m, in.fmtOk), FALSE, fileMap) ELSE
    LET gs == GetFileSize(cf.m, hFile, in.sizeOk1)
    IN IF gs.ret = 0 THEN Return(CloseHandle(gs.m, hFile), TRUE, Sentinel) ELSE
    LET largePages == LargeFlag(b, "SEC_LARGE_PAGES")
        cm == CreateFileMapping(gs.m, hFile, {"PAGE_READONLY"} \cup largePages, in.mappingOk)
        hMapping == cm.ret
    IN IF hMapping = NULL THEN WinMappingFailed(cm.m, hFile, fileMap, in.fmtOk) ELSE
    LET mv == MapViewOfFile(b, cm.m, hMapping, in.viewOk)
        pMapView == mv.ret
    IN IF pMapView = NULL
       THEN WinViewFailed(mv.m, hMapping, hFile, fileMap, in.fmtOk) ELSE
    LET gs2 == GetFileSize(mv.m, hFile, in.sizeOk2)
    IN Return(CloseHandle(CloseHandle(gs2.m, hMapping), hFile), TRUE,
              Bytes(pMapView, FromDword(gs2.ret), {"size", "base"}))

WinUnmapFile(b, m, fileMap, in) ==
    IF fileMap.size = Zero THEN Return(m, TRUE, fileMap) ELSE
    LET uv == UnmapViewOfFile(m, fileMap.base, in.ok)
    IN IF ~uv.ret
       THEN Return(TraceError(uv.m, in.fmtOk), FALSE, fileMap)
       ELSE Return(uv.m, TRUE, fileMap)

UnixMapFile(b, m, fileMap, in) ==
    LET op == Open(m, in.len, in.openOk)
        fd == op.ret
    IN IF fd = -1 THEN Return(StrError(op.m), FALSE, fileMap) ELSE
    LET fs == Fstat(op.m, fd, in.sizeOk1)
    IN IF fs.ret = -1 THEN Return(Close(StrError(fs.m), fd), FALSE, fileMap) ELSE
    LET size == ToSizeT(b, fs.st_size)
    IN IF size = Zero THEN Return(Close(fs.m, fd), TRUE, Sentinel) ELSE
    LET largePages == LargeFlag(b, "MAP_HUGETLB")
        mm == Mmap(fs.m, size, {"MAP_PRIVATE"} \cup largePages, FALSE,
                   in.mappingOk /\ in.viewOk)
        data == mm.ret
    IN IF data = MAP_FAILED THEN Return(Close(StrError(mm.m), fd), FALSE, fileMap) ELSE
    Return(Close(mm.m, fd), TRUE, Bytes(data, size, {"size", "base"}))

UnixUnmapFile(b, m, fileMap, in) ==
    IF fileMap.base = NULL THEN Return(m, TRUE, fileMap) ELSE
    LET mu == Munmap(m, fileMap.base, ToSizeT(b, fileMap.size), in.ok)
    IN IF mu.ret = -1
       THEN Return(StrError(mu.m), FALSE, fileMap)
       ELSE Return(mu.m, TRUE, fileMap)

\* ------------------------------------------------------ backend selection
\* #ifdef _WIN32 ... #elif defined(__unix__): exactly one backend is compiled.

BackendAlloc(b, m, bytes, in) ==
    IF b.os = "_WIN32" THEN WinAlloc(b, m, bytes, in) ELSE UnixAlloc(b, m, bytes, in)

BackendFree(b, m, bytes, in) ==
    IF b.os = "_WIN32" THEN WinFree(b, m, bytes, in) ELSE UnixFree(b, m, bytes, in)

BackendMapFile(b, m, fileMap, in) ==
    IF b.os = "_WIN32" THEN WinMapFile(b, m, fileMap, in) ELSE UnixMapFile(b, m, fileMap, in)

BackendUnmapFile(b, m, fileMap, in) ==
    IF b.os = "_WIN32" THEN WinUnmapFile(b, m, fileMap, in) ELSE UnixUnmapFile(b, m, fileMap, in)

\* The same build with the other backend compiled.
Other(b) ==
    [b EXCEPT !.os = IF @ = "_WIN32" THEN "__unix__" ELSE "_WIN32", !.UNICODE = FALSE]

\* What a caller can observe of a call, and what it leaves outstanding.
Obs(r) ==
    [ret |-> r.ret, wrote |-> r.out.wrote, null |-> r.out.base = NULL,
     size |-> r.out.size, traces |-> Len(r.m.traces),
     handles |-> r.m.handles, views |-> r.m.views, allocs |-> r.m.allocs]

\* The verdicts of a MapFile call give every native step of one backend the
\* verdict of the step of the other that does the same: fstat is the one
\* query of the size, so the two GetFileSize calls have to agree when the
\* second is reached.
Corresponding(in) ==
    in.convOk /\ (in.sizeOk1 \/ ~in.sizeOk2 \/ ~(in.mappingOk /\ in.viewOk))

Beside(r, corresponding) == [obs |-> Obs(r), corresponding |-> corresponding]

\* ------------------------------------------------------------- the inputs

\* A verdict is an input only for a native call the build can make: the
\* verdict of a call that is never reached is fixed (TRUE).

AllocIn(b) ==
    { in \in [size : Sizes, ok : BOOLEAN, fmtOk : BOOLEAN] :
        (in.ok \/ b.os # "_WIN32") => in.fmtOk }

ReleaseIn(b) ==
    { in \in [ok : BOOLEAN, fmtOk : BOOLEAN] :
        (in.ok \/ b.os # "_WIN32") => in.fmtOk }

MapIn(b) ==
    { in \in [len : Sizes, convOk : BOOLEAN, openOk : BOOLEAN, sizeOk1 : BOOLEAN,
              mappingOk : BOOLEAN, viewOk : BOOLEAN, sizeOk2 : BOOLEAN,
              fmtOk : BOOLEAN] :
        /\ ~b.UNICODE => in.convOk
        /\ ~in.convOk => in.openOk
        /\ ~in.openOk => in.sizeOk1 /\ in.mappingOk
        /\ ~in.mappingOk => in.viewOk
        /\ ~in.viewOk => in.sizeOk2
        /\ b.os # "_WIN32" => in.mappingOk /\ in.sizeOk2 /\ in.fmtOk
        /\ (b.os # "_WIN32" /\ ~in.sizeOk1) => in.viewOk
        /\ (in.convOk /\ in.openOk /\ in.mappingOk /\ in.viewOk) => in.fmtOk }

\* ---------------------------------------------------------------- actions

Live == allocs \cup views

\* The record of the call that has just returned: the operation, its
\* argument (the size asked for, the file's length, or the region passed),
\* the result, what the call did, and what it changed in the host's tables.
Done(op, arg, r) ==
    [op |-> op, arg |-> arg, ret |-> r.ret, out |-> r.out,
     calls |-> r.m.calls, traces |-> r.m.traces,
     mapped |-> r.m.views \ views, unmapped |-> views \ r.m.views,
     allocated |-> r.m.allocs \ allocs, freed |-> allocs \ r.m.allocs]

Apply(op, arg, r) ==
    /\ allocs' = r.m.allocs
    /\ views' = r.m.views
    /\ handles' = r.m.handles
    /\ last' = Done(op, arg, r)
    /\ UNCHANGED build

Init ==
    /\ build \in Builds
    /\ allocs = {}
    /\ views = {}
    /\ handles = {}
    /\ held = {}
    /\ last = [op |-> "none", arg |-> Zero, ret |-> TRUE, out |-> Unbound,
               calls |-> <<>>, traces |-> <<>>, mapped |-> {}, unmapped |-> {},
               allocated |-> {}, freed |-> {}]
    /\ peer = Beside(Return(Machine({}, {}, {}), TRUE, Unbound), TRUE)

Now == Machine(allocs, views, handles)

\* Bytes bytes; if (!Alloc(size, &bytes)) return; ... the caller keeps the
\* region of a successful call.
AllocCall(in) ==
    LET r == BackendAlloc(build, Now, Unbound, in)
    IN /\ Cardinality(Live) < MaxLive
       /\ Apply("Alloc", in.size, r)
       /\ held' = IF r.ret THEN held \cup {[kind |-> "alloc", bytes |-> r.out]} ELSE held

\* Free(bytes) on a region exactly as Alloc returned it; the caller lets go
\* of it when the call succeeds.
FreeCall(h, in) ==
    LET r == BackendFree(build, Now, h.bytes, in)
    IN /\ h.kind = "alloc"
       /\ Apply("Free", h.bytes, r)
       /\ held' = IF r.ret THEN held \ {h} ELSE held

\* Bytes fileMap; if (!MapFile(filePath, &fileMap)) return;
MapFileCall(in) ==
    LET r == BackendMapFile(build, Now, Unbound, in)
    IN /\ Cardinality(Live) < MaxLive
       /\ Apply("MapFile", in.len, r)
       /\ held' = IF r.ret THEN held \cup {[kind |-> "map", bytes |-> r.out]} ELSE held

\* UnmapFile(fileMap) on a region exactly as MapFile returned it.
UnmapFileCall(h, in) ==
    LET r == BackendUnmapFile(build, Now, h.bytes, in)
    IN /\ h.kind = "map"
       /\ Apply("UnmapFile", h.bytes, r)
       /\ held' = IF r.ret THEN held \ {h} ELSE held

Alloc == \E in \in AllocIn(build) : AllocCall(in) /\ UNCHANGED peer

Free == \E h \in held, in \in ReleaseIn(build) : FreeCall(h, in) /\ UNCHANGED peer

MapFile == \E in \in MapIn(build) : MapFileCall(in) /\ UNCHANGED peer

UnmapFile == \E h \in held, in \in ReleaseIn(build) : UnmapFileCall(h, in) /\ UNCHANGED peer

Next == Alloc \/ Free \/ MapFile \/ UnmapFile

Spec == Init /\ [][Next]_vars

\* The same calls, with the other backend run beside the compiled one on the
\* same tables, the same arguments and the same verdicts of the native calls.
AllocBoth ==
    \E in \in AllocIn(build) :
        AllocCall(in) /\ peer' = Beside(BackendAlloc(Other(build), Now, Unbound, in), TRUE)

FreeBoth ==
    \E h \in held, in \in ReleaseIn(build) :
        FreeCall(h, in) /\ peer' = Beside(BackendFree(Other(build), Now, h.bytes, in), TRUE)

MapFileBoth ==
    \E in \in MapIn(build) :
        /\ MapFileCall(in)
        /\ peer' = Beside(BackendMapFile(Other(build), Now, Unbound, in), Corresponding(in))

UnmapFileBoth ==
    \E h \in held, in \in ReleaseIn(build) :
        /\ UnmapFileCall(h, in)
        /\ peer' = Beside(BackendUnmapFile(Other(build), Now, h.bytes, in), TRUE)

NextBoth == AllocBoth \/ FreeBoth \/ MapFileBoth \/ UnmapFileBoth

SpecBoth == Init /\ [][NextBoth]_vars

\* --------------------------------------------------------------- the claims

Calls(fns) == {i \in DOMAIN last.calls : last.calls[i].fn \in fns}

Made(fns) == Cardinality(Calls(fns))

NativeAlloc == {"VirtualAlloc", "mmap"}

NativeRelease == {"VirtualFree", "munmap", "UnmapViewOfFile"}

NativeMapping == {"CreateFileMapping", "MapViewOfFile", "mmap"}

NativeOpen == {"CreateFile", "open", "CreateFileMapping"}

NativeClose == {"CloseHandle", "close"}

\* The four native steps of MapFile that can fail.
MapSteps ==
    {"CreateFile", "open", "GetFileSize", "fstat", "CreateFileMapping",
     "MapViewOfFile", "mmap"}

Opened == {i \in Calls(NativeOpen) : last.calls[i].ok}

FailedSteps == {i \in Calls(MapSteps) : ~last.calls[i].ok}

\* C1: when MapFile returns, with success or failure, every file handle /
\* descriptor and every mapping-object handle the call opened is closed; a
\* failure return leaves no view mapped; only a successful mapping of a
\* non-empty file leaves something behind, exactly one view; and a view stays
\* mapped until UnmapFile is called on it.
C1_Returned ==
    last.op = "MapFile" =>
        /\ handles = {}
        /\ Made(NativeClose) = Cardinality(Opened)
        /\ last.unmapped = {}
        /\ ~last.ret => last.mapped = {}
        /\ last.mapped # {} =>
             last.ret /\ last.arg # Zero /\ Cardinality(last.mapped) = 1
        /\ last.allocated = {} /\ last.freed = {}

C1_ViewStays ==
    \A v \in views : v \notin views' => last'.op = "UnmapFile" /\ last'.arg.base = v.base

C1_MapFileReleasesWhatItOpened == [][C1_Returned' /\ C1_ViewStays]_vars

\* C1 witness: MapViewOfFile failed after the file and the mapping object
\* had been opened, and both handles were closed.
C1_Witness ==
    /\ last.op = "MapFile"
    /\ ~last.ret
    /\ \E i \in Calls({"MapViewOfFile"}) : ~last.calls[i].ok
    /\ Cardinality(Opened) = 2
    /\ Made(NativeClose) = 2
    /\ handles = {}

\* C2: MapFile on an openable file of size zero returns TRUE with the empty
\* sentinel (base = NULL, size = 0), makes no native memory-mapping call and
\* does not invoke the error reporter; and MapFile returns the empty
\* sentinel only for a file of size zero.
C2_EmptyFile ==
    last.op = "MapFile" =>
        /\ (last.arg = Zero /\ Opened # {}) =>
              /\ last.ret
              /\ last.out = Sentinel
              /\ Made(NativeMapping) = 0
              /\ last.traces = <<>>
        /\ (last.ret /\ last.out = Sentinel) => last.arg = Zero

\* C3: UnmapFile on the empty sentinel (base = NULL) returns TRUE, makes no
\* native release call and does not invoke the error reporter; for every
\* region with base # NULL it makes exactly one native release call.
C3_UnmapFile ==
    last.op = "UnmapFile" =>
        /\ last.arg.base = NULL =>
              last.ret /\ Made(NativeRelease) = 0 /\ last.traces = <<>>
        /\ last.arg.base # NULL => Made(NativeRelease) = 1

\* C4: if a native step of MapFile fails (open, size, mapping object, view),
\* MapFile returns FALSE, the error reporter is invoked, and no later native
\* step follows the failing one.
C4_NoFailedStepIgnored ==
    last.op = "MapFile" =>
        \A i \in FailedSteps :
            /\ ~last.ret
            /\ last.traces # <<>>
            /\ \A j \in Calls(MapSteps) : j <= i

\* C5: a call of Alloc, Free, MapFile or UnmapFile that returns FALSE invokes
\* the error reporter exactly once, one that returns TRUE never.
C5_OneReportPerFailure ==
    last.op # "none" => Len(last.traces) = IF last.ret THEN 0 ELSE 1

\* C5 witness: a Free whose native release failed.
C5_Witness ==
    /\ last.op = "Free"
    /\ ~last.ret
    /\ Len(last.traces) = 1

\* C6: when MapFile succeeds on a file of size S > 0, the region's size is S
\* and is the length of the view established, whatever S is.
C6_SizeIsFileSize ==
    (last.op = "MapFile" /\ last.ret /\ last.arg # Zero) =>
        /\ last.out.size = last.arg
        /\ last.mapped = {[base |-> last.out.base, len |-> last.out.size]}

\* C7: when the native allocation of Alloc fails, Alloc returns FALSE after
\* exactly one native allocation attempt (with the huge-page flag when
\* LARGE_PAGES is defined, and no second attempt without it), nothing of the
\* call stays allocated and neither field of the output region is written.
C7_AllocFailure ==
    (last.op = "Alloc" /\ \E i \in Calls(NativeAlloc) : ~last.calls[i].ok) =>
        /\ ~last.ret
        /\ Made(NativeAlloc) = 1
        /\ \A i \in Calls(NativeAlloc) :
              build.LARGE_PAGES <=>
                  last.calls[i].flags \cap {"MEM_LARGE_PAGES", "MAP_HUGETLB"} # {}
        /\ last.allocated = {}
        /\ last.out.wrote = {}

\* C7 witness: an Alloc with LARGE_PAGES defined whose native call failed.
C7_Witness ==
    /\ last.op = "Alloc"
    /\ build.LARGE_PAGES
    /\ ~last.ret
    /\ Made(NativeAlloc) = 1
    /\ last.arg # Zero

\* C8: for N > 0, a successful Alloc(N) returns size = N, base # NULL and
\* has asked the native call for exactly N bytes; a Free of that region that
\* returns TRUE made one native release, leaves no byte of the allocation
\* mapped and has not invoked the error reporter.
C8_AllocExactlyN ==
    /\ (last.op = "Alloc" /\ last.ret /\ last.arg # Zero) =>
          /\ last.out.size = last.arg
          /\ last.out.base # NULL
          /\ Made(NativeAlloc) = 1
          /\ \A i \in Calls(NativeAlloc) : last.calls[i].len = last.arg
    /\ (last.op = "Free" /\ last.ret) =>
          /\ Made(NativeRelease) = 1
          /\ \A a \in allocs : a.base # last.arg.base
          /\ last.traces = <<>>

\* What the caller observes of the call that has returned, and what is left
\* outstanding.
Observed ==
    [ret |-> last.ret, wrote |-> last.out.wrote, null |-> last.out.base = NULL,
     size |-> last.out.size, traces |-> Len(last.traces),
     handles |-> handles, views |-> views, allocs |-> allocs]

\* C9: the two backends are observationally equivalent: the same call with
\* the same verdicts of the corresponding native steps gives the same boolean,
\* the same region shape, as many reporter invocations and the same
\* outstanding resources.
C9_BackendsAgree ==
    (last.op # "none" /\ peer.corresponding) => Observed = peer.obs

\* C10: every region a successful Alloc or MapFile writes has size = 0 iff
\* base = NULL, and the region (NULL, 0) comes only from MapFile on a file of
\* length zero.
C10_EmptyIffNull ==
    (last.op \in {"Alloc", "MapFile"} /\ last.ret) =>
        /\ last.out.size = Zero <=> last.out.base = NULL
        /\ (last.out.base = NULL /\ last.out.size = Zero) =>
              last.op = "MapFile" /\ last.arg = Zero

====
